---- MODULE Spec2Model ----
(***************************************************************************)
(* A model of SpacemanDMM's render passes, expression tree and Place tool: *)
(*   - tools/render_passes/mod.rs : the render pass registry, configure()  *)
(*     and the hooks of the built-in passes, with the pipeline driver that *)
(*     runs them stage by stage;                                           *)
(*   - dm/ast.rs : the operator enums and the Term <-> Expression          *)
(*     conversions;                                                        *)
(*   - editor/tools/place.rs : the palette of the placement tool.          *)
(* Each part has its own specification; the variables of the other parts   *)
(* stay idle in it.  Strings are TLA+ strings; Len, \o and SubSeq act on   *)
(* them as on sequences of characters.                                     *)
(***************************************************************************)
EXTENDS Integers, Sequences, FiniteSets, TLC

VARIABLES
    include,      \* configure: the include argument (a comma separated list)
    exclude,      \* configure: the exclude argument
    output,       \* configure: the returned Vec, as the pass types built
    cerror,       \* configure: the error reported to the caller, "none" if none
    cpc,          \* configure: "ready" before the call, "done" after it
    ast_in,       \* ast: the value a conversion is applied to, with its kind
    ast_expr,     \* ast: the Expression made from a Term, None before that
    ast_out,      \* ast: the result of the conversion, None before it
    apc,          \* ast: "ready", "wrapped" (a Term made an Expression), "done"
    hin,          \* hook call: the arguments (atom, accumulators, sprite)
    hout,         \* hook call: the same after the call
    hcall,        \* hook call: the hook that was called, "none" before
    datom,        \* pipeline: the atom given to the pipeline
    dpasses,      \* pipeline: the enabled passes, in registry order
    dwork,        \* pipeline: the atoms in flight, each with its sprite
    dstage,       \* pipeline: the stage to run next, "done" after the last
    palette,      \* Place: the palette entries, each a prefab and its editor
    pal_current,  \* Place: the index of the selected entry, counted from 0
    world         \* Place: the prefabs of the instances click has added

configure_vars == <<include, exclude, output, cerror, cpc>>

ast_vars == <<ast_in, ast_expr, ast_out, apc>>

hook_vars == <<hin, hout, hcall>>

pipeline_vars == <<datom, dpasses, dwork, dstage>>

place_vars == <<palette, pal_current, world>>

vars == <<configure_vars, ast_vars, hook_vars, pipeline_vars, place_vars>>

(***************************************************************************)
(* Strings                                                                 *)
(***************************************************************************)

\* The character of s at position i (1-based), as a one character string.
CharAt(s, i) == SubSeq(s, i, i)

\* str::starts_with
starts_with(s, prefix) ==
    /\ Len(prefix) <= Len(s)
    /\ SubSeq(s, 1, Len(prefix)) = prefix

\* str::contains
contains(s, pat) ==
    \E i \in 1..(Len(s) - Len(pat) + 1) : SubSeq(s, i, i + Len(pat) - 1) = pat

\* The position of the first comma of s, 0 when s holds none.
FirstComma(s) ==
    IF \E i \in 1..Len(s) : CharAt(s, i) = ","
    THEN CHOOSE i \in 1..Len(s) :
            /\ CharAt(s, i) = ","
            /\ \A j \in 1..(i - 1) : CharAt(s, j) # ","
    ELSE 0

\* str::split(","), collected: the pieces between the commas, empty pieces
\* kept, so that split("") = <<"">>.
RECURSIVE split(_)
split(s) ==
    LET i == FirstComma(s)
    IN  IF i = 0
        THEN <<s>>
        ELSE <<SubSeq(s, 1, i - 1)>> \o split(SubSeq(s, i + 1, Len(s)))

\* iter().any(|&name| name == wanted)
any_eq(list, wanted) == \E i \in 1..Len(list) : list[i] = wanted

(***************************************************************************)
(* The pass registry and configure                                         *)
(***************************************************************************)

\* pass!(type, name, desc, default); new is the type the constructor builds.
pass(typ, name, def) == [name |-> name, default |-> def, new |-> typ]

RENDER_PASSES == <<
    pass("HideSpace", "hide-space", TRUE),
    pass("HideAreas", "hide-areas", TRUE),
    pass("HideInvisible", "hide-invisible", TRUE),
    pass("Random", "random", TRUE),
    pass("Pretty", "pretty", TRUE),
    pass("Spawners", "spawners", TRUE),
    pass("FakeGlass", "fake-glass", TRUE),
    pass("TransitTube", "transit-tube", TRUE),
    pass("GravityGen", "gravity-gen", TRUE),
    pass("Wires", "only-powernet", FALSE),
    pass("Pipes", "only-pipenet", FALSE),
    pass("FancyLayers", "fancy-layers", TRUE) >>

\* Mutant: the default flag is ignored, every pass counts as default-enabled.
included_IgnoreDefault(inc, exc, p) ==
    IF any_eq(inc, p.name) THEN TRUE
    ELSE IF any_eq(exc, p.name) THEN FALSE
    ELSE IF any_eq(inc, "all") THEN TRUE
    ELSE IF any_eq(exc, "all") THEN FALSE
    ELSE TRUE

\* Mutant: the exclude wildcard is tested before the explicit names.
included_ExcludeAllFirst(inc, exc, p) ==
    IF any_eq(exc, "all") /\ ~any_eq(inc, "all") THEN FALSE
    ELSE IF any_eq(inc, p.name) THEN TRUE
    ELSE IF any_eq(exc, p.name) THEN FALSE
    ELSE IF any_eq(inc, "all") THEN TRUE
    ELSE p.default

\* Mutant: the include wildcard is tested before the explicit exclusion.
included_WildcardFirst(inc, exc, p) ==
    IF any_eq(inc, p.name) THEN TRUE
    ELSE IF any_eq(inc, "all") THEN TRUE
    ELSE IF any_eq(exc, p.name) THEN FALSE
    ELSE IF any_eq(exc, "all") THEN FALSE
    ELSE p.default

\* The value of `included` for one pass of the registry, inc and exc being
\* the split lists; include_all and exclude_all are any_eq(inc, "all") and
\* any_eq(exc, "all").
included(inc, exc, p) ==
    IF any_eq(inc, p.name) THEN TRUE
    ELSE IF any_eq(exc, p.name) THEN FALSE
    ELSE IF any_eq(inc, "all") THEN TRUE
    ELSE IF any_eq(exc, "all") THEN FALSE
    ELSE p.default

\* configure: the passes of the registry that are included, in registry
\* order, each built by its constructor.
configure(inc_str, exc_str) ==
    LET inc == split(inc_str)
        exc == split(exc_str)
        kept == SelectSeq(RENDER_PASSES, LAMBDA p : included(inc, exc, p))
    IN  [i \in 1..Len(kept) |-> kept[i].new]

(***************************************************************************)
(* dm/ast.rs: operators                                                    *)
(***************************************************************************)

None == [tag |-> "None"]
Some(x) == [tag |-> "Some", val |-> x]

UnaryOp == {"Neg", "Not", "BitNot", "PreIncr", "PostIncr", "PreDecr", "PostDecr"}

BinaryOp == {"Pow", "Add", "Sub", "Mul", "Div", "Mod", "Less", "Greater",
             "LessEq", "GreaterEq", "LShift", "RShift", "Eq", "NotEq",
             "BitAnd", "BitXor", "BitOr", "And", "Or"}

AssignOp == {"Assign", "AddAssign", "SubAssign", "MulAssign", "DivAssign",
             "BitAndAssign", "BitOrAssign", "BitXorAssign", "LShiftAssign",
             "RShiftAssign"}

\* BinaryOp::assignop
BinaryOp_assignop(self) == None

\* AssignOp::binop
AssignOp_binop(self) == None

(***************************************************************************)
(* dm/ast.rs: terms and expressions                                        *)
(***************************************************************************)

\* enum Term (the variants New, List, Prefab, String and Resource are left
\* out: the conversions treat them as they treat Call and Ident).
Term_Null == [tag |-> "Null"]
Term_Ident(name) == [tag |-> "Ident", name |-> name]
Term_Int(i) == [tag |-> "Int", val |-> i]
Term_Float(f) == [tag |-> "Float", num |-> f]
Term_Call(name, args) == [tag |-> "Call", name |-> name, args |-> args]
Term_Expr(expr) == [tag |-> "Expr", expr |-> expr]

\* enum Expression
Expression_Base(unary, term, follow) ==
    [tag |-> "Base", unary |-> unary, term |-> term, follow |-> follow]
Expression_BinaryOp(op, lhs, rhs) ==
    [tag |-> "BinaryOp", op |-> op, lhs |-> lhs, rhs |-> rhs]
Expression_AssignOp(op, lhs, rhs) ==
    [tag |-> "AssignOp", op |-> op, lhs |-> lhs, rhs |-> rhs]

\* enum Follow
Follow_Field(name) == [tag |-> "Field", name |-> name]
Follow_Index(expr) == [tag |-> "Index", expr |-> expr]
Follow_Call(name, args) == [tag |-> "Call", name |-> name, args |-> args]

\* An f32 is held as the text Rust prints for it: "NaN", or the shortest
\* decimal text of the number, one text per value; the two zeros, 0.0 and
\* -0.0, are two values with two texts.
f32_is_zero(a) == a \in {"0.0", "-0.0"}

\* f32's == (IEEE 754): NaN equals nothing, itself included; the two zeros
\* are equal to each other; any other two values are equal when they are
\* the same value.
f32_eq(a, b) ==
    /\ a # "NaN"
    /\ b # "NaN"
    /\ (a = b \/ (f32_is_zero(a) /\ f32_is_zero(b)))

\* #[derive(PartialEq)] on Term, Expression and Follow.
RECURSIVE Term_eq(_, _), Expression_eq(_, _), Follow_eq(_, _)
Term_eq(a, b) ==
    /\ a.tag = b.tag
    /\ CASE a.tag = "Null" -> TRUE
         [] a.tag = "Ident" -> a.name = b.name
         [] a.tag = "Int" -> a.val = b.val
         [] a.tag = "Float" -> f32_eq(a.num, b.num)
         [] a.tag = "Call" ->
                /\ a.name = b.name
                /\ Len(a.args) = Len(b.args)
                /\ \A i \in 1..Len(a.args) : Expression_eq(a.args[i], b.args[i])
         [] a.tag = "Expr" -> Expression_eq(a.expr, b.expr)
Expression_eq(a, b) ==
    /\ a.tag = b.tag
    /\ CASE a.tag = "Base" ->
                /\ a.unary = b.unary
                /\ Term_eq(a.term, b.term)
                /\ Len(a.follow) = Len(b.follow)
                /\ \A i \in 1..Len(a.follow) : Follow_eq(a.follow[i], b.follow[i])
         [] a.tag \in {"BinaryOp", "AssignOp"} ->
                /\ a.op = b.op
                /\ Expression_eq(a.lhs, b.lhs)
                /\ Expression_eq(a.rhs, b.rhs)
Follow_eq(a, b) ==
    /\ a.tag = b.tag
    /\ CASE a.tag = "Field" -> a.name = b.name
         [] a.tag = "Index" -> Expression_eq(a.expr, b.expr)
         [] a.tag = "Call" ->
                /\ a.name = b.name
                /\ Len(a.args) = Len(b.args)
                /\ \A i \in 1..Len(a.args) : Expression_eq(a.args[i], b.args[i])

\* impl From<Term> for Expression
Expression_from(term) == Expression_Base(<<>>, term, <<>>)

\* Mutant: only the follow list is tested before the wrapper is dropped.
RECURSIVE Term_from_IgnoreUnary(_)
Term_from_IgnoreUnary(expr) ==
    IF expr.tag = "Base"
    THEN IF Len(expr.follow) = 0
         THEN IF expr.term.tag = "Expr"
              THEN Term_from_IgnoreUnary(expr.term.expr)
              ELSE expr.term
         ELSE Term_Expr(expr)
    ELSE Term_Expr(expr)

\* impl From<Expression> for Term
RECURSIVE Term_from(_)
Term_from(expr) ==
    IF expr.tag = "Base"
    THEN IF Len(expr.unary) = 0 /\ Len(expr.follow) = 0
         THEN IF expr.term.tag = "Expr"
              THEN Term_from(expr.term.expr)
              ELSE expr.term
         ELSE Term_Expr(expr)
    ELSE Term_Expr(expr)

(***************************************************************************)
(* Atoms, constants and the object tree (the boundary of the passes)       *)
(***************************************************************************)

\* dm::constants::Constant; a float is written by its whole-number value.
Constant_null == [tag |-> "Null"]
Constant_Int(i) == [tag |-> "Int", val |-> i]
Constant_Float(f) == [tag |-> "Float", val |-> f]
Constant_string(str) == [tag |-> "String", str |-> str]
Constant_Resource(str) == [tag |-> "Resource", str |-> str]

\* Constant::to_float: the number of an Int or a Float, None otherwise.
to_float(c) == IF c.tag \in {"Int", "Float"} THEN Some(c.val) ELSE None

\* Option::unwrap_or
unwrap_or(opt, default) == IF opt.tag = "Some" THEN opt.val ELSE default

\* Constant == &str: a String or Resource constant of that text.
Constant_eq_str(c, str) == c.tag \in {"String", "Resource"} /\ c.str = str

\* dm::objtree::subpath: path is parent without its trailing slash, or
\* begins with parent; parent ends with a slash.
subpath(path, parent) ==
    \/ path = SubSeq(parent, 1, Len(parent) - 1)
    \/ starts_with(path, parent)

\* The variables the passes read or write.
VarNames == {"icon", "icon_state", "oxygentanks", "plasmatanks",
             "invisibility", "illustration"}

\* The object tree: the variables a type declares or inherits.
TypeVars(path) ==
    [v \in VarNames |->
        CASE v = "icon" -> Constant_Resource("icons/default.dmi")
          [] v = "icon_state" -> Constant_string("default")
          [] v \in {"oxygentanks", "plasmatanks"} ->
                IF subpath(path, "/obj/structure/tank_dispenser/")
                THEN Constant_Int(10) ELSE Constant_null
          [] v = "invisibility" ->
                IF subpath(path, "/obj/effect/landmark/")
                THEN Constant_Int(101) ELSE Constant_Int(0)
          [] v = "illustration" ->
                IF subpath(path, "/obj/item/storage/box/")
                THEN Constant_string("writing") ELSE Constant_null]

\* minimap::Atom: a type, its resolved variables and a location.
Atom(path, atom_vars, loc) == [path |-> path, vars |-> atom_vars, loc |-> loc]

\* Atom::from_type: an atom of the type with the type's own variables.
Atom_from_type(path, loc) == Atom(path, TypeVars(path), loc)

\* Atom::istype
istype(atom, parent) == subpath(atom.path, parent)

\* Atom::get_path
get_path(atom) == atom.path

\* Atom::get_var: the atom's value of the variable, null when it has none.
get_var(atom, key) ==
    IF key \in DOMAIN atom.vars THEN atom.vars[key] ELSE Constant_null

\* Atom::set_var
set_var(atom, key, value) ==
    [atom EXCEPT !.vars = [k \in (DOMAIN atom.vars) \cup {key} |->
                                IF k = key THEN value ELSE atom.vars[k]]]

\* minimap::Sprite, the two fields the passes write.
Sprite(plane, layer) == [plane |-> plane, layer |-> layer]

(***************************************************************************)
(* The hooks of the passes of render_passes/mod.rs                         *)
(***************************************************************************)

\* add_to: push a copy of the atom with the given icon_state.
add_to(target, atom, icon) ==
    Append(target, set_var(atom, "icon_state", Constant_string(icon)))

\* HideSpace::expand: the new output accumulator and whether the atom was
\* consumed.
HideSpace_expand(atom, out) ==
    IF istype(atom, "/turf/template_noop/")
    THEN [output |-> Append(out, Atom_from_type("/turf/open/space", atom.loc)),
          consumed |-> TRUE]
    ELSE [output |-> out, consumed |-> FALSE]

\* Mutant: the filter keeps every atom.
HideSpace_late_filter_KeepAll(atom) == TRUE

\* HideSpace::late_filter
HideSpace_late_filter(atom) == ~istype(atom, "/turf/open/space/")

\* HideAreas::path_filter
HideAreas_path_filter(path) == ~subpath(path, "/area/")

\* HideInvisible::early_filter
HideInvisible_early_filter(atom) ==
    IF \/ unwrap_or(to_float(get_var(atom, "invisibility")), 0) > 60
       \/ istype(atom, "/obj/effect/mapping_helpers/")
    THEN FALSE
    ELSE IF /\ Constant_eq_str(get_var(atom, "icon"), "icons/obj/items_and_weapons.dmi")
            /\ Constant_eq_str(get_var(atom, "icon_state"), "syndballoon")
            /\ ~istype(atom, "/obj/item/toy/syndicateballoon/")
    THEN FALSE
    ELSE TRUE

\* Mutant: the grille is pushed before the plating.
FakeGlass_overlays_GrilleFirst(atom, underlays, overlays) ==
    IF istype(atom, "/turf/closed/indestructible/fakeglass/")
    THEN LET plating == set_var(set_var(atom, "icon",
                            Constant_string("icons/turf/floors.dmi")),
                            "icon_state", Constant_string("plating"))
             grille == set_var(set_var(atom, "icon",
                            Constant_string("icons/obj/structures.dmi")),
                            "icon_state", Constant_string("grille"))
         IN  [atom |-> atom,
              underlays |-> Append(Append(underlays, grille), plating),
              overlays |-> overlays]
    ELSE [atom |-> atom, underlays |-> underlays, overlays |-> overlays]

\* FakeGlass::overlays: the atom and the two accumulators after the call.
FakeGlass_overlays(atom, underlays, overlays) ==
    IF istype(atom, "/turf/closed/indestructible/fakeglass/")
    THEN LET plating == set_var(set_var(atom, "icon",
                            Constant_string("icons/turf/floors.dmi")),
                            "icon_state", Constant_string("plating"))
             grille == set_var(set_var(atom, "icon",
                            Constant_string("icons/obj/structures.dmi")),
                            "icon_state", Constant_string("grille"))
         IN  [atom |-> atom,
              underlays |-> Append(Append(underlays, plating), grille),
              overlays |-> overlays]
    ELSE [atom |-> atom, underlays |-> underlays, overlays |-> overlays]

\* Pretty::adjust_vars
Pretty_adjust_vars(atom) ==
    IF istype(atom, "/obj/structure/bookcase/")
    THEN set_var(atom, "icon_state", Constant_string("book-0"))
    ELSE atom

\* Mutant: the plasma test is the else branch of the oxygen test.
Pretty_tank_overlays_ElseIf(atom, overlays) ==
    LET oxygen == get_var(atom, "oxygentanks")
        plasma == get_var(atom, "plasmatanks")
    IN  IF oxygen.tag = "Int" /\ oxygen.val >= 4
        THEN add_to(overlays, atom, "oxygen-4")
        ELSE IF oxygen.tag = "Int" /\ oxygen.val > 0
        THEN add_to(overlays, atom, "oxygen-" \o ToString(oxygen.val))
        ELSE IF plasma.tag = "Int"
        THEN IF plasma.val >= 5 THEN add_to(overlays, atom, "plasma-5")
             ELSE IF plasma.val > 0
                  THEN add_to(overlays, atom, "plasma-" \o ToString(plasma.val))
                  ELSE overlays
        ELSE overlays

\* Pretty::overlays, the tank dispenser branch: the overlay accumulator
\* after the oxygen and the plasma overlay were added.
Pretty_tank_overlays(atom, overlays) ==
    LET oxygen == get_var(atom, "oxygentanks")
        plasma == get_var(atom, "plasmatanks")
        with_oxygen ==
            IF oxygen.tag = "Int"
            THEN IF oxygen.val >= 4 THEN add_to(overlays, atom, "oxygen-4")
                 ELSE IF oxygen.val > 0
                      THEN add_to(overlays, atom, "oxygen-" \o ToString(oxygen.val))
                      ELSE overlays
            ELSE overlays
    IN  IF plasma.tag = "Int"
        THEN IF plasma.val >= 5 THEN add_to(with_oxygen, atom, "plasma-5")
             ELSE IF plasma.val > 0
                  THEN add_to(with_oxygen, atom, "plasma-" \o ToString(plasma.val))
                  ELSE with_oxygen
        ELSE with_oxygen

\* Pretty::overlays: the atom and the two accumulators after the call.
Pretty_overlays(atom, underlays, overlays) ==
    [atom |-> atom,
     underlays |-> underlays,
     overlays |->
        IF /\ istype(atom, "/obj/item/storage/box/")
           /\ ~istype(atom, "/obj/item/storage/box/papersack/")
        THEN Append(overlays, set_var(atom, "icon_state", get_var(atom, "illustration")))
        ELSE IF istype(atom, "/obj/machinery/firealarm/")
        THEN add_to(add_to(add_to(overlays, atom, "fire_overlay"), atom, "fire_0"),
                    atom, "fire_off")
        ELSE IF istype(atom, "/obj/structure/tank_dispenser/")
        THEN Pretty_tank_overlays(atom, overlays)
        ELSE overlays]

\* Wires::late_filter
Wires_late_filter(atom) == istype(atom, "/obj/structure/cable/")

\* Pipes::late_filter
Pipes_late_filter(atom) == istype(atom, "/obj/machinery/atmospherics/pipe/")

\* Mutant: the general closed-turf rule is tested before the mineral rule.
fancy_layer_for_path_ClosedFirst(p) ==
    IF subpath(p, "/turf/open/floor/plating/") \/ subpath(p, "/turf/open/space/")
    THEN Some(-10000)
    ELSE IF subpath(p, "/turf/open/floor/") \/ subpath(p, "/turf/closed/")
    THEN Some(-2000)
    ELSE IF subpath(p, "/turf/closed/mineral/")
    THEN Some(-3000)
    ELSE IF subpath(p, "/turf/")
    THEN Some(-10000)
    ELSE IF subpath(p, "/obj/effect/turf_decal/")
    THEN Some(-1000)
    ELSE IF subpath(p, "/obj/structure/disposalpipe/")
    THEN Some(-6000)
    ELSE IF subpath(p, "/obj/machinery/atmospherics/pipe/") /\ ~contains(p, "visible")
    THEN Some(-5000)
    ELSE IF subpath(p, "/obj/structure/cable/")
    THEN Some(-4000)
    ELSE IF subpath(p, "/obj/machinery/power/terminal/")
    THEN Some(-3500)
    ELSE IF subpath(p, "/obj/structure/lattice/")
    THEN Some(-8000)
    ELSE IF subpath(p, "/obj/machinery/navbeacon/")
    THEN Some(-3000)
    ELSE None

\* fancy_layer_for_path
fancy_layer_for_path(p) ==
    IF subpath(p, "/turf/open/floor/plating/") \/ subpath(p, "/turf/open/space/")
    THEN Some(-10000)
    ELSE IF subpath(p, "/turf/closed/mineral/")
    THEN Some(-3000)
    ELSE IF subpath(p, "/turf/open/floor/") \/ subpath(p, "/turf/closed/")
    THEN Some(-2000)
    ELSE IF subpath(p, "/turf/")
    THEN Some(-10000)
    ELSE IF subpath(p, "/obj/effect/turf_decal/")
    THEN Some(-1000)
    ELSE IF subpath(p, "/obj/structure/disposalpipe/")
    THEN Some(-6000)
    ELSE IF subpath(p, "/obj/machinery/atmospherics/pipe/") /\ ~contains(p, "visible")
    THEN Some(-5000)
    ELSE IF subpath(p, "/obj/structure/cable/")
    THEN Some(-4000)
    ELSE IF subpath(p, "/obj/machinery/power/terminal/")
    THEN Some(-3500)
    ELSE IF subpath(p, "/obj/structure/lattice/")
    THEN Some(-8000)
    ELSE IF subpath(p, "/obj/machinery/navbeacon/")
    THEN Some(-3000)
    ELSE None

\* FancyLayers::adjust_sprite: the sprite after the call.
FancyLayers_adjust_sprite(atom, sprite) ==
    LET layer == fancy_layer_for_path(get_path(atom))
    IN  [plane |-> 0,
         layer |-> IF layer.tag = "Some" THEN layer.val ELSE sprite.layer]

(***************************************************************************)
(* Inputs of the hooks                                                     *)
(***************************************************************************)

\* The largest tank count of a dispenser.
MaxTanks == 6

Loc == <<1, 1, 1>>

\* Type paths: each branch a pass or a layer rule names, with a type under
\* it, types beside it and types whose name only begins like it.
TypePaths ==
    {"/turf/template_noop", "/turf/open/space", "/turf/open/space/basic",
     "/turf/open/spaceship", "/turf/open/floor/plating", "/turf/open/floor/wood",
     "/turf/open/water", "/turf/closed", "/turf/closed/wall",
     "/turf/closed/mineral", "/turf/closed/mineral/random",
     "/turf/closed/indestructible/fakeglass", "/turf/closed/indestructible",
     "/obj/effect/turf_decal/stripes", "/obj/structure/disposalpipe/segment",
     "/obj/machinery/atmospherics/pipe", "/obj/machinery/atmospherics/pipe/simple",
     "/obj/machinery/atmospherics/pipe/simple/general/visible",
     "/obj/machinery/atmospherics/pipe/manifold/invisible_helper",
     "/obj/machinery/atmospherics/components/unary/vent_pump",
     "/obj/structure/cable", "/obj/machinery/power/terminal",
     "/obj/structure/lattice/catwalk", "/obj/machinery/navbeacon",
     "/obj/machinery/firealarm", "/obj/item/storage/box/donkpockets",
     "/obj/item/storage/box/papersack", "/obj/structure/bookcase",
     "/obj/effect/landmark/start", "/obj/effect/mapping_helpers/no_lava",
     "/area/space", "/mob/living"}

\* The values of a tank count: integers from below zero to above both
\* ceilings, null and a float.
TankValues ==
    {Constant_Int(n) : n \in (-1)..MaxTanks}
        \cup {Constant_null, Constant_Float(2)}

TankDispensers ==
    {set_var(set_var(Atom_from_type(p, Loc), "oxygentanks", o), "plasmatanks", m) :
        p \in {"/obj/structure/tank_dispenser", "/obj/structure/tank_dispenser/oxygen"},
        o \in TankValues, m \in TankValues}

\* A toy that shows the balloon and an atom of another type disguised as it.
Balloons ==
    {set_var(set_var(Atom_from_type(p, Loc), "icon",
                     Constant_Resource("icons/obj/items_and_weapons.dmi")),
             "icon_state", Constant_string("syndballoon")) :
        p \in {"/obj/item/toy/syndicateballoon", "/obj/item/toy/sword"}}

Atoms == {Atom_from_type(p, Loc) : p \in TypePaths} \cup TankDispensers \cup Balloons

\* An accumulator is empty or holds the pseudo-atom of an earlier pass.
Accumulators ==
    {<<>>, <<set_var(Atom_from_type("/obj/machinery/firealarm", Loc),
                     "icon_state", Constant_string("fire_0"))>>}

Sprites == {Sprite(0, 2), Sprite(-1, 4)}

NoAtom == Atom_from_type("", Loc)

HookIdle ==
    /\ hin = [atom |-> NoAtom, underlays |-> <<>>, overlays |-> <<>>,
              sprite |-> Sprite(0, 0)]
    /\ hout = hin
    /\ hcall = "idle"

InitHook ==
    /\ hin \in [atom : Atoms, underlays : Accumulators, overlays : Accumulators,
                sprite : Sprites]
    /\ hout = hin
    /\ hcall = "none"

\* FakeGlass.overlays(atom, objtree, underlays, overlays)
CallFakeGlassOverlays ==
    /\ hcall = "none"
    /\ LET r == FakeGlass_overlays(hin.atom, hin.underlays, hin.overlays)
       IN  hout' = [hin EXCEPT !.atom = r.atom, !.underlays = r.underlays,
                               !.overlays = r.overlays]
    /\ hcall' = "FakeGlass::overlays"
    /\ UNCHANGED hin

\* Pretty.overlays(atom, objtree, underlays, overlays)
CallPrettyOverlays ==
    /\ hcall = "none"
    /\ LET r == Pretty_overlays(hin.atom, hin.underlays, hin.overlays)
       IN  hout' = [hin EXCEPT !.atom = r.atom, !.underlays = r.underlays,
                               !.overlays = r.overlays]
    /\ hcall' = "Pretty::overlays"
    /\ UNCHANGED hin

\* Pretty.adjust_vars(atom, objtree)
CallPrettyAdjustVars ==
    /\ hcall = "none"
    /\ hout' = [hin EXCEPT !.atom = Pretty_adjust_vars(hin.atom)]
    /\ hcall' = "Pretty::adjust_vars"
    /\ UNCHANGED hin

\* FancyLayers.adjust_sprite(atom, sprite, objtree)
CallFancyLayersAdjustSprite ==
    /\ hcall = "none"
    /\ hout' = [hin EXCEPT !.sprite = FancyLayers_adjust_sprite(hin.atom, hin.sprite)]
    /\ hcall' = "FancyLayers::adjust_sprite"
    /\ UNCHANGED hin

(***************************************************************************)
(* trait RenderPass: a hook of a pass is its own or the trait's default    *)
(***************************************************************************)

path_filter(pass_type, path) ==
    IF pass_type = "HideAreas" THEN HideAreas_path_filter(path) ELSE TRUE

early_filter(pass_type, atom) ==
    IF pass_type = "HideInvisible" THEN HideInvisible_early_filter(atom) ELSE TRUE

expand(pass_type, atom, out) ==
    IF pass_type = "HideSpace" THEN HideSpace_expand(atom, out)
    ELSE [output |-> out, consumed |-> FALSE]

adjust_vars(pass_type, atom) ==
    IF pass_type = "Pretty" THEN Pretty_adjust_vars(atom) ELSE atom

adjust_sprite(pass_type, atom, sprite) ==
    IF pass_type = "FancyLayers" THEN FancyLayers_adjust_sprite(atom, sprite)
    ELSE sprite

overlays(pass_type, atom, unders, overs) ==
    IF pass_type = "FakeGlass" THEN FakeGlass_overlays(atom, unders, overs)
    ELSE IF pass_type = "Pretty" THEN Pretty_overlays(atom, unders, overs)
    ELSE [atom |-> atom, underlays |-> unders, overlays |-> overs]

late_filter(pass_type, atom) ==
    IF pass_type = "HideSpace" THEN HideSpace_late_filter(atom)
    ELSE IF pass_type = "Wires" THEN Wires_late_filter(atom)
    ELSE IF pass_type = "Pipes" THEN Pipes_late_filter(atom)
    ELSE TRUE

(***************************************************************************)
(* The pipeline driver: the stages in their fixed order, each stage run    *)
(* pass by pass over the atoms in flight                                   *)
(***************************************************************************)

\* An atom in flight: the atom, its sprite, and whether it is a pseudo-atom
\* made by an overlays hook.
InFlight(atom, sprite, pseudo) == [atom |-> atom, sprite |-> sprite, pseudo |-> pseudo]

DefaultSprite == Sprite(0, 2)

\* expand of every pass on one atom: the atoms it leaves in flight.
RECURSIVE ExpandBy(_, _, _)
ExpandBy(passes, atom, acc) ==
    IF Len(passes) = 0 THEN acc
    ELSE LET r == expand(Head(passes), atom, acc.output)
         IN  ExpandBy(Tail(passes), atom,
                      [output |-> r.output, consumed |-> acc.consumed \/ r.consumed])

ExpandStage(passes, item) ==
    LET r == ExpandBy(passes, item.atom, [output |-> <<>>, consumed |-> FALSE])
    IN  (IF r.consumed THEN <<>> ELSE <<item>>)
            \o [i \in 1..Len(r.output) |-> InFlight(r.output[i], DefaultSprite, FALSE)]

\* The expand stage over the atoms in flight.
RECURSIVE ExpandAll(_, _)
ExpandAll(passes, items) ==
    IF Len(items) = 0 THEN <<>>
    ELSE ExpandStage(passes, Head(items)) \o ExpandAll(passes, Tail(items))

\* adjust_vars of every pass on one atom.
RECURSIVE AdjustVarsBy(_, _)
AdjustVarsBy(passes, atom) ==
    IF Len(passes) = 0 THEN atom
    ELSE AdjustVarsBy(Tail(passes), adjust_vars(Head(passes), atom))

\* overlays of every pass on one atom, the accumulators shared by the passes.
RECURSIVE OverlaysBy(_, _)
OverlaysBy(passes, acc) ==
    IF Len(passes) = 0 THEN acc
    ELSE OverlaysBy(Tail(passes),
                    overlays(Head(passes), acc.atom, acc.underlays, acc.overlays))

\* The underlays go before their parent and the overlays after it.
OverlaysStage(passes, item) ==
    IF item.pseudo THEN <<item>>
    ELSE LET r == OverlaysBy(passes, [atom |-> item.atom, underlays |-> <<>>,
                                      overlays |-> <<>>])
         IN  [i \in 1..Len(r.underlays) |-> InFlight(r.underlays[i], item.sprite, TRUE)]
                \o <<InFlight(r.atom, item.sprite, FALSE)>>
                \o [i \in 1..Len(r.overlays) |-> InFlight(r.overlays[i], item.sprite, TRUE)]

\* The overlays stage over the atoms in flight.
RECURSIVE OverlaysAll(_, _)
OverlaysAll(passes, items) ==
    IF Len(items) = 0 THEN <<>>
    ELSE OverlaysStage(passes, Head(items)) \o OverlaysAll(passes, Tail(items))

\* adjust_sprite of every pass on one atom.
RECURSIVE AdjustSpriteBy(_, _, _)
AdjustSpriteBy(passes, atom, sprite) ==
    IF Len(passes) = 0 THEN sprite
    ELSE AdjustSpriteBy(Tail(passes), atom, adjust_sprite(Head(passes), atom, sprite))

\* The passes the pipeline is made of: those whose hooks mod.rs defines.
PipelinePasses ==
    <<"HideSpace", "HideAreas", "HideInvisible", "Pretty", "FakeGlass", "Wires",
      "Pipes", "FancyLayers">>

Pipelines ==
    {SelectSeq(PipelinePasses, LAMBDA t : t \in S) :
        S \in SUBSET {PipelinePasses[i] : i \in 1..Len(PipelinePasses)}}

\* The atoms given to the pipeline: one of each type, the balloons, and the
\* dispensers of a few counts.
PipelineAtoms ==
    {Atom_from_type(p, Loc) : p \in TypePaths} \cup Balloons
        \cup {a \in TankDispensers :
                /\ a.path = "/obj/structure/tank_dispenser"
                /\ a.vars["oxygentanks"] \in {Constant_Int(0), Constant_Int(MaxTanks)}
                /\ a.vars["plasmatanks"] \in {Constant_Int(2), Constant_null}}

PipelineIdle ==
    /\ datom = NoAtom
    /\ dpasses = <<>>
    /\ dwork = <<>>
    /\ dstage = "idle"

InitPipeline ==
    /\ datom \in PipelineAtoms
    /\ dpasses \in Pipelines
    /\ dwork = <<InFlight(datom, DefaultSprite, FALSE)>>
    /\ dstage = "path_filter"

PathFilterStage ==
    /\ dstage = "path_filter"
    /\ dwork' = SelectSeq(dwork, LAMBDA it :
                    \A i \in 1..Len(dpasses) : path_filter(dpasses[i], it.atom.path))
    /\ dstage' = "early_filter"
    /\ UNCHANGED <<datom, dpasses>>

EarlyFilterStage ==
    /\ dstage = "early_filter"
    /\ dwork' = SelectSeq(dwork, LAMBDA it :
                    \A i \in 1..Len(dpasses) : early_filter(dpasses[i], it.atom))
    /\ dstage' = "expand"
    /\ UNCHANGED <<datom, dpasses>>

ExpandStageStep ==
    /\ dstage = "expand"
    /\ dwork' = ExpandAll(dpasses, dwork)
    /\ dstage' = "adjust_vars"
    /\ UNCHANGED <<datom, dpasses>>

AdjustVarsStage ==
    /\ dstage = "adjust_vars"
    /\ dwork' = [i \in 1..Len(dwork) |->
                    [dwork[i] EXCEPT !.atom = AdjustVarsBy(dpasses, @)]]
    /\ dstage' = "overlays"
    /\ UNCHANGED <<datom, dpasses>>

OverlaysStageStep ==
    /\ dstage = "overlays"
    /\ dwork' = OverlaysAll(dpasses, dwork)
    /\ dstage' = "adjust_sprite"
    /\ UNCHANGED <<datom, dpasses>>

AdjustSpriteStage ==
    /\ dstage = "adjust_sprite"
    /\ dwork' = [i \in 1..Len(dwork) |->
                    IF dwork[i].pseudo THEN dwork[i]
                    ELSE [dwork[i] EXCEPT
                            !.sprite = AdjustSpriteBy(dpasses, dwork[i].atom, @)]]
    /\ dstage' = "late_filter"
    /\ UNCHANGED <<datom, dpasses>>

LateFilterStage ==
    /\ dstage = "late_filter"
    /\ dwork' = SelectSeq(dwork, LAMBDA it :
                    \A i \in 1..Len(dpasses) : late_filter(dpasses[i], it.atom))
    /\ dstage' = "done"
    /\ UNCHANGED <<datom, dpasses>>

(***************************************************************************)
(* editor/tools/place.rs: the placement tool                               *)
(***************************************************************************)

\* dm::ast::Prefab: a type path and the variables set on it, in the order
\* they were set: a sequence of PrefabVar(name, expression).
Prefab(path, prefab_vars) == [path |-> path, vars |-> prefab_vars]
PrefabVar(key, expr) == [key |-> key, expr |-> expr]

\* #[derive(PartialEq)] on Prefab: the paths are equal and the variables
\* are, LinkedHashMap's == comparing the two maps entry by entry in order,
\* the values with Expression's ==.
Prefab_eq(a, b) ==
    /\ a.path = b.path
    /\ Len(a.vars) = Len(b.vars)
    /\ \A i \in 1..Len(a.vars) :
        /\ a.vars[i].key = b.vars[i].key
        /\ Expression_eq(a.vars[i].expr, b.vars[i].expr)

\* Option<EditPrefab>: no editor, or an editor holding the prefab edited.
NoEdit == [tag |-> "None"]
EditPrefab_new(fab) == [tag |-> "Some", fab |-> fab]

\* struct PaletteEntry (the icon is left out: it is drawn, never read back).
PaletteEntry(fab, edit) == [fab |-> fab, edit |-> edit]

\* PaletteEntry::new
PaletteEntry_new(fab) == PaletteEntry(fab, NoEdit)

\* What the user does in one frame of the settings window: nothing, or one
\* click: on the icon of entry index (left, right), in the menu bar of its
\* editor (apply, remove), on the editor's close button (close), in the
\* editor's variable list (edit, the editor then holding fab), or on a type
\* of the add popup (add, with or without shift).
\*
\* The palette.retain_mut(...) loop of settings, from entry i on: the
\* entries kept and pal_current after it.
RECURSIVE retain_palette(_, _, _, _)
retain_palette(entries, i, current, ev) ==
    IF Len(entries) = 0
    THEN [palette |-> <<>>, pal_current |-> current]
    ELSE LET pal == Head(entries)
             hit == ev.kind # "add" /\ ev.index = i
             selected == IF hit /\ ev.kind = "left" THEN i ELSE current
             opened ==
                IF hit /\ ev.kind = "right" /\ pal.edit.tag = "None"
                THEN [pal EXCEPT !.edit = EditPrefab_new(pal.fab)]
                ELSE pal
             has_editor == opened.edit.tag = "Some"
             edited ==
                IF has_editor /\ hit /\ ev.kind = "apply"
                THEN [opened EXCEPT !.fab = opened.edit.fab]
                ELSE IF has_editor /\ hit /\ ev.kind = "edit"
                THEN [opened EXCEPT !.edit = EditPrefab_new(ev.fab)]
                ELSE opened
             keep == ~(has_editor /\ hit /\ ev.kind = "remove")
             keep_editor == ~(has_editor /\ hit /\ ev.kind = "close")
             closed == IF keep_editor THEN edited ELSE [edited EXCEPT !.edit = NoEdit]
             shifted == IF ~keep /\ selected > i THEN selected - 1 ELSE selected
             rest == retain_palette(Tail(entries), i + 1, shifted, ev)
         IN  [palette |-> (IF keep THEN <<closed>> ELSE <<>>) \o rest.palette,
              pal_current |-> rest.pal_current]

\* Place::settings: the retain_mut loop, then the add popup.
settings(entries, current, ev) ==
    LET r == retain_palette(entries, 0, current, ev)
    IN  IF ev.kind = "add"
        THEN LET fab == Prefab(ev.path, <<>>)
                 entry == PaletteEntry(fab, IF ev.shift THEN EditPrefab_new(fab)
                                            ELSE NoEdit)
             IN  [palette |-> Append(r.palette, entry),
                  pal_current |-> Len(r.palette)]
        ELSE r

\* Vec::get with an index counted from 0.
vec_get(v, index) ==
    IF index < Len(v) THEN [tag |-> "Some", entry |-> v[index + 1]]
    ELSE [tag |-> "None"]

\* Place::click: the world after the click.
click(entries, current, instances) ==
    LET got == vec_get(entries, current)
    IN  IF got.tag = "Some" THEN instances \cup {got.entry.fab} ELSE instances

\* Place::pick
pick(entries, current, prefab) ==
    IF \E i \in 1..Len(entries) : Prefab_eq(entries[i].fab, prefab)
    THEN [palette |-> entries,
          pal_current |->
            (CHOOSE i \in 1..Len(entries) :
                /\ Prefab_eq(entries[i].fab, prefab)
                /\ \A j \in 1..(i - 1) : ~Prefab_eq(entries[j].fab, prefab)) - 1]
    ELSE [palette |-> Append(entries, PaletteEntry_new(prefab)),
          pal_current |-> Len(entries)]

(***************************************************************************)
(* The Place tool driven by the user                                       *)
(***************************************************************************)

\* The most entries the palette is given.
MaxPalette == 2

\* The types of the add popup and the prefabs picked or made in an editor.
PlacePaths == {"/obj/structure/table"}
PrefabFloat(f) ==
    Prefab("/obj/structure/table",
           <<PrefabVar("x", Expression_from(Term_Float(f)))>>)
Prefabs ==
    {Prefab(p, <<>>) : p \in PlacePaths}
        \cup {PrefabFloat("0.0"), PrefabFloat("-0.0")}

PlaceIdle ==
    /\ palette = <<>>
    /\ pal_current = 0
    /\ world = {}

\* Place::default()
InitPlace == PlaceIdle

Indices == 0..(Len(palette) - 1)

\* A frame of settings with the one event ev.
Frame(ev) ==
    LET r == settings(palette, pal_current, ev)
    IN  /\ palette' = r.palette
        /\ pal_current' = r.pal_current
        /\ UNCHANGED world

SettingsLeftClick ==
    \E i \in Indices : Frame([kind |-> "left", index |-> i])

SettingsRightClick ==
    \E i \in Indices : Frame([kind |-> "right", index |-> i])

SettingsApply ==
    \E i \in Indices :
        /\ palette[i + 1].edit.tag = "Some"
        /\ Frame([kind |-> "apply", index |-> i])

SettingsEdit ==
    \E i \in Indices : \E fab \in Prefabs :
        /\ palette[i + 1].edit.tag = "Some"
        /\ fab.path = palette[i + 1].edit.fab.path
        /\ Frame([kind |-> "edit", index |-> i, fab |-> fab])

SettingsCloseEditor ==
    \E i \in Indices :
        /\ palette[i + 1].edit.tag = "Some"
        /\ Frame([kind |-> "close", index |-> i])

SettingsRemove ==
    \E i \in Indices :
        /\ palette[i + 1].edit.tag = "Some"
        /\ Frame([kind |-> "remove", index |-> i])

SettingsAdd ==
    /\ Len(palette) < MaxPalette
    /\ \E p \in PlacePaths : \E shift \in BOOLEAN :
        Frame([kind |-> "add", index |-> 0, path |-> p, shift |-> shift])

Click ==
    /\ world' = click(palette, pal_current, world)
    /\ UNCHANGED <<palette, pal_current>>

Pick ==
    \E prefab \in Prefabs :
        /\ (\E i \in 1..Len(palette) : Prefab_eq(palette[i].fab, prefab))
                \/ Len(palette) < MaxPalette
        /\ LET r == pick(palette, pal_current, prefab)
           IN  /\ palette' = r.palette
               /\ pal_current' = r.pal_current
        /\ UNCHANGED world

(***************************************************************************)
(* Inputs of the conversions                                               *)
(***************************************************************************)

\* The deepest nesting of Term::Expr in the terms converted.
MaxTermDepth == 2

TermLeaves ==
    {Term_Null, Term_Ident("x"), Term_Int(1), Term_Float("1.5"), Term_Float("-0.0"),
     Term_Float("NaN")}

RECURSIVE Terms(_)
\* The expressions over the terms of depth d: each term bare, under a unary
\* operator, followed by a field access or by an index; two binary
\* operations and an assignment.
Expressions(d) ==
    {Expression_Base(u, t, f) :
        u \in {<<>>, <<"Not", "Neg">>}, t \in Terms(d),
        f \in {<<>>, <<Follow_Field("f")>>,
               <<Follow_Index(Expression_from(Term_Int(1)))>>}}
    \cup {Expression_BinaryOp("Add", Expression_from(Term_Int(1)), Expression_from(t)) :
            t \in {Term_Ident("x"), Term_Float("NaN")}}
    \cup {Expression_AssignOp("AddAssign", Expression_from(Term_Ident("x")),
                              Expression_from(Term_Int(1)))}
Terms(d) ==
    IF d = 0
    THEN TermLeaves
    ELSE TermLeaves
            \cup {Term_Expr(e) : e \in Expressions(d - 1)}
            \cup {Term_Call("f", <<Expression_from(t)>>) : t \in TermLeaves}

AstInputs ==
    {[kind |-> "Term", term |-> t] : t \in Terms(MaxTermDepth)}
    \cup {[kind |-> "AssignOp", op |-> op] : op \in AssignOp}
    \cup {[kind |-> "BinaryOp", op |-> op] : op \in BinaryOp}

AstIdle ==
    /\ ast_in = [kind |-> "None"]
    /\ ast_expr = None
    /\ ast_out = None
    /\ apc = "idle"

InitAst ==
    /\ ast_in \in AstInputs
    /\ ast_expr = None
    /\ ast_out = None
    /\ apc = "ready"

\* Expression::from(term)
ToExpression ==
    /\ apc = "ready"
    /\ ast_in.kind = "Term"
    /\ ast_expr' = Expression_from(ast_in.term)
    /\ apc' = "wrapped"
    /\ UNCHANGED <<ast_in, ast_out>>

\* Term::from(expression), of the expression made from the term
ToTerm ==
    /\ apc = "wrapped"
    /\ ast_out' = Term_from(ast_expr)
    /\ apc' = "done"
    /\ UNCHANGED <<ast_in, ast_expr>>

\* op.binop()
CallBinop ==
    /\ apc = "ready"
    /\ ast_in.kind = "AssignOp"
    /\ ast_out' = AssignOp_binop(ast_in.op)
    /\ apc' = "done"
    /\ UNCHANGED <<ast_in, ast_expr>>

\* op.assignop()
CallAssignop ==
    /\ apc = "ready"
    /\ ast_in.kind = "BinaryOp"
    /\ ast_out' = BinaryOp_assignop(ast_in.op)
    /\ apc' = "done"
    /\ UNCHANGED <<ast_in, ast_expr>>

(***************************************************************************)
(* Inputs of configure                                                     *)
(***************************************************************************)

\* The longest list of names given to configure.
MaxNames == 2

\* The names the lists are written with: a default-enabled pass, the two
\* default-disabled passes, the wildcard and a name the registry lacks.
ConfigTokens == {"hide-space", "only-powernet", "only-pipenet", "all", "wires"}

RECURSIVE join(_)
join(list) ==
    IF Len(list) = 0 THEN ""
    ELSE IF Len(list) = 1 THEN list[1]
    ELSE list[1] \o "," \o join(Tail(list))

ConfigStrings ==
    {join(l) : l \in UNION {[1..n -> ConfigTokens] : n \in 0..MaxNames}}

ConfigureIdle ==
    /\ include = ""
    /\ exclude = ""
    /\ output = <<>>
    /\ cerror = "none"
    /\ cpc = "idle"

InitConfigure ==
    /\ AstIdle
    /\ HookIdle
    /\ PipelineIdle
    /\ PlaceIdle
    /\ include \in ConfigStrings
    /\ exclude \in ConfigStrings
    /\ output = <<>>
    /\ cerror = "none"
    /\ cpc = "ready"

\* A call of configure(include, exclude); it returns its Vec, it has no
\* other way to end.
Configure ==
    /\ cpc = "ready"
    /\ output' = configure(include, exclude)
    /\ cpc' = "done"
    /\ UNCHANGED <<include, exclude, cerror>>
    /\ UNCHANGED <<ast_vars, hook_vars, pipeline_vars, place_vars>>

NextConfigure == Configure

SpecConfigure == InitConfigure /\ [][NextConfigure]_vars

(***************************************************************************)
(* The conversions of dm/ast.rs, each applied to one input                 *)
(***************************************************************************)

InitAstSpec == InitAst /\ ConfigureIdle /\ HookIdle /\ PipelineIdle /\ PlaceIdle

NextAst ==
    \/ (ToExpression /\ UNCHANGED <<configure_vars, hook_vars, pipeline_vars, place_vars>>)
    \/ (ToTerm /\ UNCHANGED <<configure_vars, hook_vars, pipeline_vars, place_vars>>)
    \/ (CallBinop /\ UNCHANGED <<configure_vars, hook_vars, pipeline_vars, place_vars>>)
    \/ (CallAssignop /\ UNCHANGED <<configure_vars, hook_vars, pipeline_vars, place_vars>>)

SpecAst == InitAstSpec /\ [][NextAst]_vars

(***************************************************************************)
(* The hooks of the passes, each called once on its arguments              *)
(***************************************************************************)

InitHookSpec == InitHook /\ ConfigureIdle /\ AstIdle /\ PipelineIdle /\ PlaceIdle

NextHook ==
    \/ (CallFakeGlassOverlays /\ UNCHANGED <<configure_vars, ast_vars, pipeline_vars, place_vars>>)
    \/ (CallPrettyOverlays /\ UNCHANGED <<configure_vars, ast_vars, pipeline_vars, place_vars>>)
    \/ (CallPrettyAdjustVars /\ UNCHANGED <<configure_vars, ast_vars, pipeline_vars, place_vars>>)
    \/ (CallFancyLayersAdjustSprite /\ UNCHANGED <<configure_vars, ast_vars, pipeline_vars, place_vars>>)

SpecHook == InitHookSpec /\ [][NextHook]_vars

(***************************************************************************)
(* The pipeline run on one atom                                            *)
(***************************************************************************)

InitPipelineSpec == InitPipeline /\ ConfigureIdle /\ AstIdle /\ HookIdle /\ PlaceIdle

NextPipeline ==
    \/ (PathFilterStage /\ UNCHANGED <<configure_vars, ast_vars, hook_vars, place_vars>>)
    \/ (EarlyFilterStage /\ UNCHANGED <<configure_vars, ast_vars, hook_vars, place_vars>>)
    \/ (ExpandStageStep /\ UNCHANGED <<configure_vars, ast_vars, hook_vars, place_vars>>)
    \/ (AdjustVarsStage /\ UNCHANGED <<configure_vars, ast_vars, hook_vars, place_vars>>)
    \/ (OverlaysStageStep /\ UNCHANGED <<configure_vars, ast_vars, hook_vars, place_vars>>)
    \/ (AdjustSpriteStage /\ UNCHANGED <<configure_vars, ast_vars, hook_vars, place_vars>>)
    \/ (LateFilterStage /\ UNCHANGED <<configure_vars, ast_vars, hook_vars, place_vars>>)

SpecPipeline == InitPipelineSpec /\ [][NextPipeline]_vars

(***************************************************************************)
(* The Place tool                                                          *)
(***************************************************************************)

InitPlaceSpec == InitPlace /\ ConfigureIdle /\ AstIdle /\ HookIdle /\ PipelineIdle

NextPlace ==
    \/ (SettingsLeftClick /\ UNCHANGED <<configure_vars, ast_vars, hook_vars, pipeline_vars>>)
    \/ (SettingsRightClick /\ UNCHANGED <<configure_vars, ast_vars, hook_vars, pipeline_vars>>)
    \/ (SettingsApply /\ UNCHANGED <<configure_vars, ast_vars, hook_vars, pipeline_vars>>)
    \/ (SettingsEdit /\ UNCHANGED <<configure_vars, ast_vars, hook_vars, pipeline_vars>>)
    \/ (SettingsCloseEditor /\ UNCHANGED <<configure_vars, ast_vars, hook_vars, pipeline_vars>>)
    \/ (SettingsRemove /\ UNCHANGED <<configure_vars, ast_vars, hook_vars, pipeline_vars>>)
    \/ (SettingsAdd /\ UNCHANGED <<configure_vars, ast_vars, hook_vars, pipeline_vars>>)
    \/ (Click /\ UNCHANGED <<configure_vars, ast_vars, hook_vars, pipeline_vars>>)
    \/ (Pick /\ UNCHANGED <<configure_vars, ast_vars, hook_vars, pipeline_vars>>)

SpecPlace == InitPlaceSpec /\ [][NextPlace]_vars

(***************************************************************************)
(* Properties of configure                                                 *)
(***************************************************************************)

\* The pass record P was built into the returned pipeline.
InPipeline(P) == any_eq(output, P.new)

Registry == {RENDER_PASSES[i] : i \in 1..Len(RENDER_PASSES)}

PipelineSet == {output[i] : i \in 1..Len(output)}

AllTypes == {P.new : P \in Registry}

DefaultTypes == {P.new : P \in {Q \in Registry : Q.default}}

\* The returned pipeline holds exactly the types of S, each once.
PipelineIs(S) == PipelineSet = S /\ Len(output) = Cardinality(S)

\* C1 (as stated): a default-enabled pass is in the pipeline unless its name
\* is in the exclude list; a default-disabled pass is in the pipeline only
\* when its name is in the include list.
C1_Original ==
    cpc = "done" =>
        LET inc == split(include)
            exc == split(exclude)
        IN  \A P \in Registry :
                /\ (P.default /\ ~any_eq(exc, P.name)) => InPipeline(P)
                /\ (~P.default /\ InPipeline(P)) => any_eq(inc, P.name)

\* C1 (amended): a default-enabled pass is in the pipeline unless its name or
\* "all" is in the exclude list; a default-disabled pass is in the pipeline
\* only when its name or "all" is in the include list.
C1_DefaultsStand ==
    cpc = "done" =>
        LET inc == split(include)
            exc == split(exclude)
        IN  \A P \in Registry :
                /\ (P.default /\ ~any_eq(exc, P.name) /\ ~any_eq(exc, "all"))
                        => InPipeline(P)
                /\ (~P.default /\ InPipeline(P))
                        => (any_eq(inc, P.name) \/ any_eq(inc, "all"))

\* One default-disabled pass included by name, one default-enabled pass
\* excluded by name, the other defaults standing.
C1_Witness ==
    /\ cpc = "done"
    /\ include = "only-powernet"
    /\ exclude = "hide-space"
    /\ PipelineIs((DefaultTypes \ {"HideSpace"}) \cup {"Wires"})

\* C2: explicit exclusion wins over wildcard inclusion; wildcard exclusion
\* wins over the default flag; explicit inclusion wins over wildcard
\* exclusion.
C2_Precedence ==
    cpc = "done" =>
        LET inc == split(include)
            exc == split(exclude)
        IN  \A P \in Registry :
                /\ (any_eq(exc, P.name) /\ any_eq(inc, "all") /\ ~any_eq(inc, P.name))
                        => ~InPipeline(P)
                /\ (any_eq(exc, "all") /\ ~any_eq(inc, P.name) /\ ~any_eq(inc, "all"))
                        => ~InPipeline(P)
                /\ (any_eq(inc, P.name) /\ any_eq(exc, "all")) => InPipeline(P)

\* Wildcard inclusion and wildcard exclusion meet an explicit exclusion and
\* an explicit inclusion: only the pass included by name is left out of the
\* wildcard exclusion, and the pass excluded by name stays out.
C2_Witness ==
    /\ cpc = "done"
    /\ include = "only-powernet,all"
    /\ exclude = "hide-space,all"
    /\ PipelineIs(AllTypes \ {"HideSpace"})

\* C3 (as stated): include="wires" adds the Wires pass to the defaults and
\* include="all", exclude="wires" yields the registry without Wires.
C3_Original ==
    cpc = "done" =>
        /\ (include = "wires" /\ exclude = "")
                => PipelineIs(DefaultTypes \cup {"Wires"})
        /\ (include = "all" /\ exclude = "wires")
                => PipelineIs(AllTypes \ {"Wires"})

\* C3 (amended): with the name the registry gives the Wires pass,
\* include="only-powernet" adds Wires to the defaults and include="all",
\* exclude="only-powernet" yields the registry without Wires; naming one
\* default-disabled pass in include with an empty exclude adds exactly that
\* pass to the defaults, and include="all" with one pass named in exclude
\* yields the registry without that pass.
C3_Examples ==
    cpc = "done" =>
        /\ (include = "only-powernet" /\ exclude = "")
                => PipelineIs(DefaultTypes \cup {"Wires"})
        /\ (include = "all" /\ exclude = "only-powernet")
                => PipelineIs(AllTypes \ {"Wires"})
        /\ \A P \in Registry :
            /\ (~P.default /\ include = P.name /\ exclude = "")
                    => PipelineIs(DefaultTypes \cup {P.new})
            /\ (include = "all" /\ exclude = P.name)
                    => PipelineIs(AllTypes \ {P.new})

C3_Witness ==
    /\ cpc = "done"
    /\ include = "all"
    /\ exclude = "only-powernet"
    /\ Len(output) = Len(RENDER_PASSES) - 1
    /\ ~any_eq(output, "Wires")

\* A name of the list string is neither a registered name nor "all".
NamesUnknown(list_str) ==
    LET list == split(list_str)
    IN  \E i \in 1..Len(list) :
            /\ list[i] # "all"
            /\ \A P \in Registry : P.name # list[i]

\* C10: a list naming a pass the registry lacks ends the configuration in an
\* UnknownPass error.
C10_UnknownPassReported ==
    (cpc = "done" /\ (NamesUnknown(include) \/ NamesUnknown(exclude)))
        => cerror = "UnknownPass"

(***************************************************************************)
(* Properties of the conversions                                           *)
(***************************************************************************)

\* The term is a parenthesized expression whose expression is a bare term:
\* Term::Expr of a Base with no unary operator and no follow.
TrivialParen(t) ==
    /\ t.tag = "Expr"
    /\ t.expr.tag = "Base"
    /\ Len(t.expr.unary) = 0
    /\ Len(t.expr.follow) = 0

\* The term, expression or follow holds a NaN float literal somewhere.
RECURSIVE TermHasNaN(_), ExpressionHasNaN(_), FollowHasNaN(_)
TermHasNaN(t) ==
    CASE t.tag = "Float" -> t.num = "NaN"
      [] t.tag = "Call" -> \E i \in 1..Len(t.args) : ExpressionHasNaN(t.args[i])
      [] t.tag = "Expr" -> ExpressionHasNaN(t.expr)
      [] OTHER -> FALSE
ExpressionHasNaN(e) ==
    IF e.tag = "Base"
    THEN TermHasNaN(e.term) \/ \E i \in 1..Len(e.follow) : FollowHasNaN(e.follow[i])
    ELSE ExpressionHasNaN(e.lhs) \/ ExpressionHasNaN(e.rhs)
FollowHasNaN(f) ==
    CASE f.tag = "Index" -> ExpressionHasNaN(f.expr)
      [] f.tag = "Call" -> \E i \in 1..Len(f.args) : ExpressionHasNaN(f.args[i])
      [] OTHER -> FALSE

RoundTripDone == apc = "done" /\ ast_in.kind = "Term"

\* C4 (as stated): for every Term t, Term::from(Expression::from(t)) == t,
\* also when t is a Term::Expr. (Stated for the terms without a NaN, whose
\* == is not reflexive: the claim fails on them as well.)
C4_Original ==
    (RoundTripDone /\ ~TermHasNaN(ast_in.term)) => Term_eq(ast_out, ast_in.term)

\* C4 (amended): for every Term t holding no NaN that is not a Term::Expr of
\* a Base expression with empty unary and follow lists,
\* Term::from(Expression::from(t)) == t.
C4_RoundTrip ==
    (RoundTripDone /\ ~TermHasNaN(ast_in.term) /\ ~TrivialParen(ast_in.term))
        => Term_eq(ast_out, ast_in.term)

\* A Term::Expr that is kept: it wraps an expression with unary operators,
\* whose own term is a parenthesized binary operation.
C4_Witness ==
    /\ RoundTripDone
    /\ ast_in.term.tag = "Expr"
    /\ ast_in.term.expr.tag = "Base"
    /\ Len(ast_in.term.expr.unary) = 2
    /\ ast_in.term.expr.term.tag = "Expr"
    /\ ast_in.term.expr.term.expr.tag = "BinaryOp"
    /\ ~TermHasNaN(ast_in.term)
    /\ Term_eq(ast_out, ast_in.term)

\* The binary operator of the same computation as a compound assignment.
SameComputation ==
    [op \in AssignOp \ {"Assign"} |->
        CASE op = "AddAssign" -> "Add"
          [] op = "SubAssign" -> "Sub"
          [] op = "MulAssign" -> "Mul"
          [] op = "DivAssign" -> "Div"
          [] op = "BitAndAssign" -> "BitAnd"
          [] op = "BitOrAssign" -> "BitOr"
          [] op = "BitXorAssign" -> "BitXor"
          [] op = "LShiftAssign" -> "LShift"
          [] op = "RShiftAssign" -> "RShift"]

HasCompoundForm(bop) == \E op \in DOMAIN SameComputation : SameComputation[op] = bop

\* C5: binop maps every compound assignment to the binary operator of the
\* same computation and assignop maps that operator back; Assign has no
\* binary operator and a binary operator without a compound form has no
\* assignment operator.
C5_MappingTotal ==
    /\ (apc = "done" /\ ast_in.kind = "AssignOp") =>
            IF ast_in.op = "Assign"
            THEN ast_out = None
            ELSE /\ ast_out = Some(SameComputation[ast_in.op])
                 /\ BinaryOp_assignop(SameComputation[ast_in.op]) = Some(ast_in.op)
    /\ (apc = "done" /\ ast_in.kind = "BinaryOp") =>
            IF HasCompoundForm(ast_in.op)
            THEN /\ ast_out.tag = "Some"
                 /\ SameComputation[ast_out.val] = ast_in.op
            ELSE ast_out = None

(***************************************************************************)
(* Properties of the hooks                                                 *)
(***************************************************************************)

\* The atoms the call appended to an accumulator.
Appended(before, after) == SubSeq(after, Len(before) + 1, Len(after))

\* The accumulator after the call begins with the accumulator before it.
Extends(before, after) ==
    /\ Len(before) <= Len(after)
    /\ SubSeq(after, 1, Len(before)) = before

\* The pseudo-atom is the atom but for the listed variables.
CopyBut(pseudo, atom, changed) ==
    /\ pseudo.path = atom.path
    /\ pseudo.loc = atom.loc
    /\ DOMAIN pseudo.vars = DOMAIN atom.vars \cup changed
    /\ \A k \in DOMAIN atom.vars \ changed : pseudo.vars[k] = atom.vars[k]

IsFakeGlass(atom) == istype(atom, "/turf/closed/indestructible/fakeglass/")

\* C7: on a fake glass turf FakeGlass::overlays appends to the underlays a
\* plating copy and then a grille copy of the atom, appends no overlay and
\* leaves the atom as it was; on any other atom it changes nothing.
C7_FakeGlassUnderlays ==
    hcall = "FakeGlass::overlays" =>
        IF IsFakeGlass(hin.atom)
        THEN LET new == Appended(hin.underlays, hout.underlays)
             IN  /\ Extends(hin.underlays, hout.underlays)
                 /\ Len(new) = 2
                 /\ new[1].vars["icon"] = Constant_string("icons/turf/floors.dmi")
                 /\ new[1].vars["icon_state"] = Constant_string("plating")
                 /\ new[2].vars["icon"] = Constant_string("icons/obj/structures.dmi")
                 /\ new[2].vars["icon_state"] = Constant_string("grille")
                 /\ \A i \in 1..2 : CopyBut(new[i], hin.atom, {"icon", "icon_state"})
                 /\ hout.overlays = hin.overlays
                 /\ hout.atom = hin.atom
        ELSE hout = hin

\* A fake glass turf whose underlays already held a pseudo-atom.
C7_Witness ==
    /\ hcall = "FakeGlass::overlays"
    /\ IsFakeGlass(hin.atom)
    /\ Len(hin.underlays) = 1
    /\ Len(hout.underlays) = 3
    /\ hout.underlays[3].vars["icon_state"] = Constant_string("grille")

\* The overlay states of the oxygen tiers and of the plasma tiers.
OxygenTier(n) ==
    IF n <= 0 THEN <<>>
    ELSE IF n = 1 THEN <<"oxygen-1">>
    ELSE IF n = 2 THEN <<"oxygen-2">>
    ELSE IF n = 3 THEN <<"oxygen-3">>
    ELSE <<"oxygen-4">>

PlasmaTier(m) ==
    IF m <= 0 THEN <<>>
    ELSE IF m = 1 THEN <<"plasma-1">>
    ELSE IF m = 2 THEN <<"plasma-2">>
    ELSE IF m = 3 THEN <<"plasma-3">>
    ELSE IF m = 4 THEN <<"plasma-4">>
    ELSE <<"plasma-5">>

IsTankDispenser(atom) == istype(atom, "/obj/structure/tank_dispenser/")

\* The icon states of the overlays the call appended, in order.
NewOverlayStates ==
    LET new == Appended(hin.overlays, hout.overlays)
    IN  [i \in 1..Len(new) |-> new[i].vars["icon_state"].str]

\* C8: on a tank dispenser Pretty::overlays appends the overlay of the
\* oxygen tier (none for n <= 0, oxygen-n for 1..3, oxygen-4 from 4 up) and
\* then the overlay of the plasma tier (none for m <= 0, plasma-m for 1..4,
\* plasma-5 from 5 up), each decided by its own count alone.
C8_TankTiers ==
    (hcall = "Pretty::overlays" /\ IsTankDispenser(hin.atom)) =>
        LET o == hin.atom.vars["oxygentanks"]
            m == hin.atom.vars["plasmatanks"]
            new == Appended(hin.overlays, hout.overlays)
        IN  /\ Extends(hin.overlays, hout.overlays)
            /\ \A i \in 1..Len(new) : CopyBut(new[i], hin.atom, {"icon_state"})
            /\ \A i \in 1..Len(new) : new[i].vars["icon_state"].tag = "String"
            /\ o.tag = "Int" =>
                    SelectSeq(NewOverlayStates, LAMBDA st : starts_with(st, "oxygen-"))
                        = OxygenTier(o.val)
            /\ m.tag = "Int" =>
                    SelectSeq(NewOverlayStates, LAMBDA st : starts_with(st, "plasma-"))
                        = PlasmaTier(m.val)
            /\ (o.tag = "Int" /\ m.tag = "Int") =>
                    NewOverlayStates = OxygenTier(o.val) \o PlasmaTier(m.val)
            /\ hout.underlays = hin.underlays
            /\ hout.atom = hin.atom

\* A dispenser above both ceilings: both counts saturate, oxygen first.
C8_Witness ==
    /\ hcall = "Pretty::overlays"
    /\ IsTankDispenser(hin.atom)
    /\ hin.atom.vars["oxygentanks"] = Constant_Int(5)
    /\ hin.atom.vars["plasmatanks"] = Constant_Int(MaxTanks)
    /\ NewOverlayStates = <<"oxygen-4", "plasma-5">>

\* The layer rules in their order: the branches a rule names, whether it
\* skips the paths containing "visible", and its layer.
LayerRules == <<
    [under |-> {"/turf/open/floor/plating/", "/turf/open/space/"},
        hidden_only |-> FALSE, layer |-> -10000],
    [under |-> {"/turf/closed/mineral/"}, hidden_only |-> FALSE, layer |-> -3000],
    [under |-> {"/turf/open/floor/", "/turf/closed/"},
        hidden_only |-> FALSE, layer |-> -2000],
    [under |-> {"/turf/"}, hidden_only |-> FALSE, layer |-> -10000],
    [under |-> {"/obj/effect/turf_decal/"}, hidden_only |-> FALSE, layer |-> -1000],
    [under |-> {"/obj/structure/disposalpipe/"}, hidden_only |-> FALSE, layer |-> -6000],
    [under |-> {"/obj/machinery/atmospherics/pipe/"},
        hidden_only |-> TRUE, layer |-> -5000],
    [under |-> {"/obj/structure/cable/"}, hidden_only |-> FALSE, layer |-> -4000],
    [under |-> {"/obj/machinery/power/terminal/"}, hidden_only |-> FALSE, layer |-> -3500],
    [under |-> {"/obj/structure/lattice/"}, hidden_only |-> FALSE, layer |-> -8000],
    [under |-> {"/obj/machinery/navbeacon/"}, hidden_only |-> FALSE, layer |-> -3000] >>

RuleMatches(i, p) ==
    /\ \E parent \in LayerRules[i].under : subpath(p, parent)
    /\ LayerRules[i].hidden_only => ~contains(p, "visible")

MatchingRules(p) == {i \in 1..Len(LayerRules) : RuleMatches(i, p)}

\* The smallest number of a set of rule numbers.
FirstOf(S) == CHOOSE i \in S : \A j \in S : i <= j

IsPipe(p) == subpath(p, "/obj/machinery/atmospherics/pipe/")
IsClosedTurf(p) == subpath(p, "/turf/closed/")

\* C9 (as stated): every atom under the pipe branch gets layer -5000 and
\* every atom under /turf/closed/ gets layer -2000, and no path matches two
\* rules.
C9_Original ==
    hcall = "FancyLayers::adjust_sprite" =>
        /\ IsPipe(hin.atom.path) => hout.sprite.layer = -5000
        /\ IsClosedTurf(hin.atom.path) => hout.sprite.layer = -2000
        /\ Cardinality(MatchingRules(hin.atom.path)) <= 1

\* C9 (amended): an atom under the pipe branch whose path does not contain
\* "visible" gets layer -5000, an atom under /turf/closed/ but not under
\* /turf/closed/mineral/ gets layer -2000 and one under /turf/closed/mineral/
\* gets -3000; the layer is that of the first rule in the fixed order that
\* matches, and is left alone when no rule matches.
C9_FirstRuleWins ==
    hcall = "FancyLayers::adjust_sprite" =>
        LET p == hin.atom.path IN
        /\ (IsPipe(p) /\ ~contains(p, "visible")) => hout.sprite.layer = -5000
        /\ (IsClosedTurf(p) /\ ~subpath(p, "/turf/closed/mineral/"))
                => hout.sprite.layer = -2000
        /\ subpath(p, "/turf/closed/mineral/") => hout.sprite.layer = -3000
        /\ hout.sprite.layer =
                IF MatchingRules(p) = {}
                THEN hin.sprite.layer
                ELSE LayerRules[FirstOf(MatchingRules(p))].layer

\* A mineral wall: three rules match it and the first of them gives the
\* layer.
C9_Witness ==
    /\ hcall = "FancyLayers::adjust_sprite"
    /\ hin.atom.path = "/turf/closed/mineral/random"
    /\ Cardinality(MatchingRules(hin.atom.path)) = 3
    /\ hin.sprite.layer = 4
    /\ hout.sprite.layer = -3000

(***************************************************************************)
(* Properties of the pipeline                                              *)
(***************************************************************************)

\* The atoms of the output whose type is the given one or lies under it.
OutputOfType(parent) ==
    {i \in 1..Len(dwork) : istype(dwork[i].atom, parent)}

HideSpaceRan ==
    /\ dstage = "done"
    /\ any_eq(dpasses, "HideSpace")
    /\ istype(datom, "/turf/template_noop/")

\* C6 (as stated): with Hide-space enabled, the output for a placeholder
\* turf holds exactly one open-space atom and no placeholder atom.
C6_Original ==
    HideSpaceRan =>
        /\ Cardinality(OutputOfType("/turf/open/space/")) = 1
        /\ OutputOfType("/turf/template_noop/") = {}

\* C6 (amended): with Hide-space enabled, the output for a placeholder turf
\* holds no open-space atom and no placeholder atom: the open-space atom
\* that expand puts in its place is discarded by late_filter.
C6_PlaceholderVanishes ==
    HideSpaceRan =>
        /\ OutputOfType("/turf/open/space/") = {}
        /\ OutputOfType("/turf/template_noop/") = {}

\* The placeholder went through a pipeline of Hide-space and Fancy-layers
\* and left nothing.
C6_Witness ==
    /\ HideSpaceRan
    /\ dpasses = <<"HideSpace", "FancyLayers">>
    /\ dwork = <<>>

(***************************************************************************)
(* Properties of the Place tool                                            *)
(***************************************************************************)

\* C11: whenever the palette is not empty, pal_current is the index of one
\* of its entries, so that click has an entry to place.
C11_SelectionValid ==
    Len(palette) > 0 => pal_current < Len(palette)

====
